---------------------------- MODULE Spec2Model ----------------------------
(***************************************************************************)
(* Model of the synchronicity-ds token system and theme provider.          *)
(*                                                                         *)
(*   - the three tiers of token tables (primitives, semantic, component), *)
(*     transcribed entry by entry from packages/tokens/src;                *)
(*   - the theme factory getThemeColors / createTheme;                     *)
(*   - the React ThemeProvider (useState + useMemo) and its read hooks.    *)
(*                                                                         *)
(* JavaScript objects are functions from property names to values.  A      *)
(* property read of a key the object does not have yields `undefined`      *)
(* (operator Get).  Numerals of a table that holds a non-integer numeral   *)
(* are kept as their source text, since the tables are only looked up and  *)
(* compared, never computed with.                                          *)
(***************************************************************************)
EXTENDS Integers, Sequences, FiniteSets, TLC

\* The JavaScript value `undefined`.
undefined == "undefined"

\* obj[key] in JavaScript: the value of the property, or undefined when the
\* object has no such property.
Get(obj, key) == IF key \in DOMAIN obj THEN obj[key] ELSE undefined

(***************************************************************************)
(* State                                                                   *)
(***************************************************************************)

VARIABLES
  mounted,      \* the ThemeProvider is mounted
  mountProp,    \* the `theme` prop of the mounting render (undefined: omitted)
  themeProp,    \* the `theme` prop of the latest render
  theme,        \* state of React.useState<Theme>
  memoDeps,     \* dependencies the memoized themeObject was computed for
  themeObject,  \* the memoized themeObject
  themeObjectRef, \* identity of the memoized themeObject (its heap cell)
  value,        \* the memoized context value handed to ThemeContext.Provider
  run,          \* states linked by the latest consecutive toggleTheme calls
  last,         \* the latest state update React applied
  created,      \* for every name, the objects createTheme(name) has returned
  lastCreate,   \* the latest direct createTheme call: its name, whether
                \* createTheme had returned an object for that name before,
                \* and the name of the direct call before it
  lastRead,     \* the hook call of the current render of a consumer
  \* ToastProvider
  toast,        \* state of useState<ToastState | null>
  timeoutRef,   \* timeoutRef.current: handle of the latest auto-hide timer
  timers,       \* pending setTimeout callbacks, the next one to fire first
  \* ThreeCoins and the hexagram lines drawn from its results
  throwing,         \* the `throwing` prop of the latest render
  throwDuration,    \* the `throwDuration` prop of the latest render
  onThrowComplete,  \* the function passed as `onThrowComplete` (its identity)
  coins,            \* state of useState<[CoinSide, CoinSide, CoinSide]>
  effectDeps,       \* dependencies of the latest run of the throw effect
  animation,        \* the running throw animation: the closure of its callback
  calls,            \* onThrowComplete calls made for the current throw
  lastResult,       \* the ThrowResult of the latest onThrowComplete call
  shown,            \* the latest result as HexagramLine and HexagramVisual draw it
  \* Accordion
  accordionMounted, \* an <Accordion> is mounted
  allowMultiple,    \* its `allowMultiple` prop
  expandedIndices,  \* state of useState<number[]>
  \* CollapsibleGroup and its Collapsible children
  groupMounted,     \* a <CollapsibleGroup> is mounted
  accordion,        \* its `accordion` prop
  expandedIndex,    \* state of useState<number | null>
  internalExpanded, \* for every child, its useState(defaultExpanded)
  lastPress,        \* the latest press on a child: its index and whether the
                    \* child was expanded when it was pressed
  rotateAnim,       \* for every child, the value its chevron animation moves to
  heightAnim,       \* for every child, the value its height animation moves to
  \* Slider
  sliderMounted,    \* a <Slider> is mounted
  disabled,         \* the `disabled` prop of the latest render
  sliderValue,      \* the `value` prop of the latest render
  panClosure,       \* the props the callbacks of panResponder have closed over
  gesture,          \* the thumb is the responder of a pan gesture
  lastChange        \* the latest onValueChange call: its argument and the
                    \* `disabled` prop at the time of the call

themeVars == <<mounted, mountProp, themeProp, theme, memoDeps, themeObject,
               themeObjectRef, value,
               run, last, created, lastCreate, lastRead>>

toastVars == <<toast, timeoutRef, timers>>

\* State of the components, which no step of the theme provider touches.
coinsVars == <<throwing, throwDuration, onThrowComplete, coins, effectDeps,
               animation, calls, lastResult, shown>>

accordionVars == <<accordionMounted, allowMultiple, expandedIndices>>

groupVars == <<groupMounted, accordion, expandedIndex, internalExpanded, lastPress,
               rotateAnim, heightAnim>>

sliderVars == <<sliderMounted, disabled, sliderValue, panClosure, gesture, lastChange>>

componentVars == <<toastVars, coinsVars, accordionVars, groupVars, sliderVars>>

vars == <<themeVars, componentVars>>

\* What the steps of one component leave alone.
otherThanToast == <<themeVars, coinsVars, accordionVars, groupVars, sliderVars>>
otherThanCoins == <<themeVars, toastVars, accordionVars, groupVars, sliderVars>>
otherThanAccordion == <<themeVars, toastVars, coinsVars, groupVars, sliderVars>>
otherThanGroup == <<themeVars, toastVars, coinsVars, accordionVars, sliderVars>>
otherThanSlider == <<themeVars, toastVars, coinsVars, accordionVars, groupVars>>

(***************************************************************************)
(* TIER 1 - 3: the token tables                                            *)
(***************************************************************************)

\* src/packages/tokens/src/primitives/colors.ts:8-25
gold ==
  "gold-10" :> "#fffdf5"
  @@ "gold-20" :> "#fff8e1"
  @@ "gold-30" :> "#ffecb3"
  @@ "gold-40" :> "#ffe082"
  @@ "gold-50" :> "#ffd54f"
  @@ "gold-60" :> "#d4af37"
  @@ "gold-70" :> "#c9a868"
  @@ "gold-80" :> "#b8972f"
  @@ "gold-90" :> "#8a7424"
  @@ "gold-100" :> "#6b4f00"
  @@ "gold-glow" :> "#ffe8a3"
  @@ "gold-light-accent" :> "#f4cf67"
  @@ "gold-accessible" :> "#886a00"
  @@ "gold-accessible-dark" :> "#6b4f00"

\* src/packages/tokens/src/primitives/colors.ts:28-49
gray ==
  "gray-warm-10" :> "#f5f2ea"
  @@ "gray-warm-20" :> "#eae5db"
  @@ "gray-warm-30" :> "#dacfc5"
  @@ "gray-warm-40" :> "#8a7f75"
  @@ "gray-warm-50" :> "#6b5f55"
  @@ "gray-warm-60" :> "#5a4f45"
  @@ "gray-warm-70" :> "#3a3530"
  @@ "gray-warm-80" :> "#2a2520"
  @@ "gray-cool-10" :> "#e8e6e3"
  @@ "gray-cool-20" :> "#b8b6b3"
  @@ "gray-cool-30" :> "#a8a6a3"
  @@ "gray-cool-40" :> "#8a8a9a"
  @@ "gray-cool-50" :> "#7585a0"
  @@ "gray-cool-60" :> "#5a6578"
  @@ "gray-cool-70" :> "#4a5568"
  @@ "gray-cool-80" :> "#2a2a38"
  @@ "gray-cool-90" :> "#1e1e2e"
  @@ "gray-cool-100" :> "#12121a"

\* src/packages/tokens/src/primitives/colors.ts:52-63
neutral ==
  "black" :> "#000000"
  @@ "white" :> "#ffffff"
  @@ "void" :> "#0a0a0f"
  @@ "void-pure" :> "#000000"
  @@ "void-surface" :> "#0a0a0a"
  @@ "cream" :> "#faf8f3"
  @@ "cream-warm" :> "#f5f2ea"
  @@ "cream-deep" :> "#eeebe2"

\* src/packages/tokens/src/primitives/colors.ts:66-87
ethereal ==
  "ethereal-blue-10" :> "#e0f2fe"
  @@ "ethereal-blue-20" :> "#bae6fd"
  @@ "ethereal-blue-30" :> "#7dd3fc"
  @@ "ethereal-blue-40" :> "#38bdf8"
  @@ "ethereal-blue-50" :> "#0ea5e9"
  @@ "ethereal-blue-60" :> "#6b9ac4"
  @@ "ethereal-indigo-10" :> "#e0e7ff"
  @@ "ethereal-indigo-20" :> "#c7d2fe"
  @@ "ethereal-indigo-30" :> "#a5b4fc"
  @@ "ethereal-indigo-40" :> "#818cf8"
  @@ "ethereal-indigo-50" :> "#6366f1"
  @@ "ethereal-indigo-60" :> "#9b8aa8"
  @@ "ethereal-violet-10" :> "#ede9fe"
  @@ "ethereal-violet-20" :> "#ddd6fe"
  @@ "ethereal-violet-30" :> "#c4b5fd"
  @@ "ethereal-violet-40" :> "#a78bfa"
  @@ "ethereal-violet-50" :> "#8b5cf6"
  @@ "ethereal-violet-60" :> "#b19cd9"

\* src/packages/tokens/src/primitives/colors.ts:90-111
support ==
  "support-green-10" :> "#d1fae5"
  @@ "support-green-20" :> "#a7f3d0"
  @@ "support-green-30" :> "#6ee7b7"
  @@ "support-green-40" :> "#34d399"
  @@ "support-green-50" :> "#10b981"
  @@ "support-green-60" :> "#059669"
  @@ "support-red-10" :> "#fee2e2"
  @@ "support-red-20" :> "#fecaca"
  @@ "support-red-30" :> "#fca5a5"
  @@ "support-red-40" :> "#f87171"
  @@ "support-red-50" :> "#ef4444"
  @@ "support-red-60" :> "#dc2626"
  @@ "support-amber-10" :> "#fef3c7"
  @@ "support-amber-20" :> "#fde68a"
  @@ "support-amber-30" :> "#fcd34d"
  @@ "support-amber-40" :> "#fbbf24"
  @@ "support-amber-50" :> "#f59e0b"
  @@ "support-amber-60" :> "#d97706"

\* src/packages/tokens/src/primitives/easing.ts:7-14
easing ==
  "ease-linear" :> <<"0", "0", "1", "1">>
  @@ "ease-in" :> <<"0.4", "0", "1", "1">>
  @@ "ease-out" :> <<"0", "0", "0.2", "1">>
  @@ "ease-in-out" :> <<"0.4", "0", "0.2", "1">>
  @@ "ease-mystical" :> <<"0.16", "1", "0.3", "1">>
  @@ "ease-bounce" :> <<"0.34", "1.56", "0.64", "1">>

\* src/packages/tokens/src/primitives/easing.ts:17-22
spring ==
  "spring-gentle" :> ("damping" :> 20 @@ "stiffness" :> 100)
  @@ "spring-default" :> ("damping" :> 15 @@ "stiffness" :> 150)
  @@ "spring-bouncy" :> ("damping" :> 10 @@ "stiffness" :> 200)
  @@ "spring-stiff" :> ("damping" :> 25 @@ "stiffness" :> 300)

\* src/packages/tokens/src/primitives/easing.ts:54-65
radius ==
  "radius-0" :> 0
  @@ "radius-2" :> 2
  @@ "radius-4" :> 4
  @@ "radius-6" :> 6
  @@ "radius-8" :> 8
  @@ "radius-12" :> 12
  @@ "radius-16" :> 16
  @@ "radius-20" :> 20
  @@ "radius-24" :> 24
  @@ "radius-full" :> 9999

\* src/packages/tokens/src/primitives/easing.ts:75-96
spacing ==
  "space-0" :> 0
  @@ "space-1" :> 4
  @@ "space-2" :> 8
  @@ "space-3" :> 12
  @@ "space-4" :> 16
  @@ "space-5" :> 20
  @@ "space-6" :> 24
  @@ "space-7" :> 28
  @@ "space-8" :> 32
  @@ "space-9" :> 36
  @@ "space-10" :> 40
  @@ "space-11" :> 44
  @@ "space-12" :> 48
  @@ "space-13" :> 52
  @@ "space-14" :> 56
  @@ "space-15" :> 60
  @@ "space-16" :> 64
  @@ "space-20" :> 80
  @@ "space-24" :> 96
  @@ "space-32" :> 128

\* src/packages/tokens/src/primitives/border.ts:86-103
duration ==
  "duration-0" :> 0
  @@ "duration-100" :> 100
  @@ "duration-150" :> 150
  @@ "duration-200" :> 200
  @@ "duration-300" :> 300
  @@ "duration-400" :> 400
  @@ "duration-500" :> 500
  @@ "duration-600" :> 600
  @@ "duration-800" :> 800
  @@ "duration-1000" :> 1000
  @@ "duration-1200" :> 1200
  @@ "duration-1500" :> 1500
  @@ "duration-2000" :> 2000
  @@ "duration-3000" :> 3000
  @@ "duration-3600" :> 3600
  @@ "duration-4800" :> 4800

\* src/packages/tokens/src/primitives/z-index.ts:6-14
zIndex ==
  "z-0" :> 0
  @@ "z-10" :> 10
  @@ "z-20" :> 20
  @@ "z-30" :> 30
  @@ "z-40" :> 40
  @@ "z-50" :> 50
  @@ "z-auto" :> "auto"

\* A font-size scale that stops at 24: the display roles' sizes are absent.
fontSizeUpTo24 ==
  "font-size-10" :> 10
  @@ "font-size-12" :> 12
  @@ "font-size-14" :> 14
  @@ "font-size-16" :> 16
  @@ "font-size-18" :> 18
  @@ "font-size-20" :> 20
  @@ "font-size-24" :> 24

\* src/packages/tokens/src/primitives/typography.ts:7-24
fontSize ==
  "font-size-10" :> 10
  @@ "font-size-12" :> 12
  @@ "font-size-14" :> 14
  @@ "font-size-16" :> 16
  @@ "font-size-18" :> 18
  @@ "font-size-20" :> 20
  @@ "font-size-24" :> 24
  @@ "font-size-28" :> 28
  @@ "font-size-32" :> 32
  @@ "font-size-36" :> 36
  @@ "font-size-40" :> 40
  @@ "font-size-48" :> 48
  @@ "font-size-56" :> 56
  @@ "font-size-64" :> 64
  @@ "font-size-72" :> 72
  @@ "font-size-96" :> 96

\* src/packages/tokens/src/primitives/typography.ts:27-34
fontWeight ==
  "font-weight-300" :> "300"
  @@ "font-weight-400" :> "400"
  @@ "font-weight-500" :> "500"
  @@ "font-weight-600" :> "600"
  @@ "font-weight-700" :> "700"
  @@ "font-weight-900" :> "900"

\* src/packages/tokens/src/primitives/typography.ts:37-45
lineHeight ==
  "line-height-100" :> "1.0"
  @@ "line-height-120" :> "1.2"
  @@ "line-height-140" :> "1.4"
  @@ "line-height-150" :> "1.5"
  @@ "line-height-160" :> "1.6"
  @@ "line-height-180" :> "1.8"
  @@ "line-height-200" :> "2.0"

\* src/packages/tokens/src/primitives/typography.ts:48-57
letterSpacing ==
  "letter-spacing-tight" :> "-0.5"
  @@ "letter-spacing-normal" :> "0"
  @@ "letter-spacing-wide" :> "0.5"
  @@ "letter-spacing-wider" :> "1"
  @@ "letter-spacing-widest" :> "2"
  @@ "letter-spacing-ultra" :> "4"
  @@ "letter-spacing-extreme" :> "6"
  @@ "letter-spacing-ritual" :> "8"

\* src/packages/tokens/src/semantic/colors.ts:12-101
lightColors ==
  "background" :> Get(neutral, "cream")
  @@ "surface" :> Get(neutral, "cream-warm")
  @@ "surface-elevated" :> Get(neutral, "cream-deep")
  @@ "border" :> Get(gray, "gray-warm-30")
  @@ "text-primary" :> Get(gray, "gray-warm-80")
  @@ "text-secondary" :> Get(gray, "gray-warm-60")
  @@ "text-tertiary" :> Get(gray, "gray-warm-50")
  @@ "text-disabled" :> Get(gray, "gray-warm-40")
  @@ "text-inverse" :> Get(neutral, "white")
  @@ "text-on-color" :> Get(neutral, "white")
  @@ "gold-primary" :> Get(gold, "gold-accessible")
  @@ "gold-light" :> Get(gold, "gold-60")
  @@ "gold-muted" :> Get(gold, "gold-accessible")
  @@ "gold-dark" :> Get(gold, "gold-accessible-dark")
  @@ "gold-glow" :> Get(gold, "gold-light-accent")
  @@ "text-accent" :> Get(gold, "gold-accessible")
  @@ "interactive-primary" :> Get(gold, "gold-accessible")
  @@ "interactive-primary-hover" :> Get(gold, "gold-100")
  @@ "interactive-primary-active" :> Get(gold, "gold-accessible-dark")
  @@ "interactive-secondary" :> Get(gray, "gray-warm-20")
  @@ "interactive-secondary-hover" :> Get(gray, "gray-warm-30")
  @@ "interactive-disabled" :> Get(gray, "gray-warm-30")
  @@ "border-subtle" :> Get(gray, "gray-warm-20")
  @@ "border-default" :> Get(gray, "gray-warm-30")
  @@ "border-strong" :> Get(gray, "gray-warm-50")
  @@ "border-inverse" :> Get(gray, "gray-warm-80")
  @@ "border-accent" :> Get(gold, "gold-accessible")
  @@ "border-focus" :> Get(gold, "gold-accessible")
  @@ "ethereal-blue" :> "#6b7c9a"
  @@ "ethereal-indigo" :> "#7b7fc9"
  @@ "ethereal-violet" :> "#9b8cd6"
  @@ "support-success" :> "#0d8f68"
  @@ "support-success-subtle" :> Get(support, "support-green-10")
  @@ "support-warning" :> "#d87600"
  @@ "support-warning-subtle" :> Get(support, "support-amber-10")
  @@ "support-error" :> "#c93a3a"
  @@ "support-error-subtle" :> Get(support, "support-red-10")
  @@ "support-info" :> Get(ethereal, "ethereal-blue-50")
  @@ "support-info-subtle" :> Get(ethereal, "ethereal-blue-10")
  @@ "alert-info-bg" :> "rgba(107, 124, 154, 0.1)"
  @@ "alert-info-border" :> Get(ethereal, "ethereal-blue-30")
  @@ "alert-info-text" :> Get(ethereal, "ethereal-blue-60")
  @@ "alert-info-title" :> Get(ethereal, "ethereal-blue-70")
  @@ "alert-success-bg" :> "rgba(13, 143, 104, 0.1)"
  @@ "alert-success-border" :> Get(support, "support-green-30")
  @@ "alert-success-text" :> Get(support, "support-green-60")
  @@ "alert-success-title" :> Get(support, "support-green-70")
  @@ "alert-warning-bg" :> "rgba(216, 118, 0, 0.1)"
  @@ "alert-warning-border" :> Get(support, "support-amber-30")
  @@ "alert-warning-text" :> Get(support, "support-amber-60")
  @@ "alert-warning-title" :> Get(support, "support-amber-70")
  @@ "alert-error-bg" :> "rgba(201, 58, 58, 0.1)"
  @@ "alert-error-border" :> Get(support, "support-red-30")
  @@ "alert-error-text" :> Get(support, "support-red-60")
  @@ "alert-error-title" :> Get(support, "support-red-70")
  @@ "gray-900" :> Get(gray, "gray-warm-70")
  @@ "gray-700" :> Get(gray, "gray-warm-60")
  @@ "gray-600" :> "#7a6f65"
  @@ "gray-500" :> Get(gray, "gray-warm-50")
  @@ "gray-400" :> Get(gray, "gray-warm-40")
  @@ "gray-300" :> Get(gray, "gray-warm-30")
  @@ "gray-200" :> Get(gray, "gray-warm-20")
  @@ "gray-100" :> Get(gray, "gray-warm-10")
  @@ "overlay-light" :> "rgba(255, 255, 255, 0.7)"
  @@ "overlay-dark" :> "rgba(0, 0, 0, 0.5)"
  @@ "hexagram-line" :> Get(gray, "gray-warm-70")
  @@ "hexagram-line-changing" :> Get(gold, "gold-60")

\* src/packages/tokens/src/semantic/colors.ts:106-195
darkColors ==
  "background" :> Get(neutral, "void")
  @@ "surface" :> Get(gray, "gray-cool-100")
  @@ "surface-elevated" :> Get(gray, "gray-cool-90")
  @@ "border" :> "#1a1a24"
  @@ "text-primary" :> Get(gray, "gray-cool-10")
  @@ "text-secondary" :> Get(gray, "gray-cool-20")
  @@ "text-tertiary" :> Get(gray, "gray-cool-40")
  @@ "text-disabled" :> Get(gray, "gray-cool-60")
  @@ "text-inverse" :> Get(gray, "gray-cool-100")
  @@ "text-on-color" :> Get(gray, "gray-cool-100")
  @@ "gold-primary" :> Get(gold, "gold-60")
  @@ "gold-light" :> Get(gold, "gold-light-accent")
  @@ "gold-muted" :> Get(gold, "gold-70")
  @@ "gold-dark" :> Get(gold, "gold-90")
  @@ "gold-glow" :> Get(gold, "gold-glow")
  @@ "text-accent" :> Get(gold, "gold-50")
  @@ "interactive-primary" :> Get(gold, "gold-60")
  @@ "interactive-primary-hover" :> Get(gold, "gold-50")
  @@ "interactive-primary-active" :> Get(gold, "gold-40")
  @@ "interactive-secondary" :> Get(gray, "gray-cool-80")
  @@ "interactive-secondary-hover" :> Get(gray, "gray-cool-70")
  @@ "interactive-disabled" :> Get(gray, "gray-cool-70")
  @@ "border-subtle" :> Get(gray, "gray-cool-80")
  @@ "border-default" :> Get(gray, "gray-cool-70")
  @@ "border-strong" :> Get(gray, "gray-cool-50")
  @@ "border-inverse" :> Get(gray, "gray-cool-20")
  @@ "border-accent" :> Get(gold, "gold-50")
  @@ "border-focus" :> Get(gold, "gold-50")
  @@ "ethereal-blue" :> Get(gray, "gray-cool-70")
  @@ "ethereal-indigo" :> Get(ethereal, "ethereal-indigo-50")
  @@ "ethereal-violet" :> Get(ethereal, "ethereal-violet-50")
  @@ "support-success" :> Get(support, "support-green-50")
  @@ "support-success-subtle" :> Get(support, "support-green-60")
  @@ "support-warning" :> Get(support, "support-amber-50")
  @@ "support-warning-subtle" :> Get(support, "support-amber-60")
  @@ "support-error" :> Get(support, "support-red-50")
  @@ "support-error-subtle" :> Get(support, "support-red-60")
  @@ "support-info" :> Get(ethereal, "ethereal-blue-40")
  @@ "support-info-subtle" :> Get(ethereal, "ethereal-blue-60")
  @@ "alert-info-bg" :> "rgba(99, 102, 241, 0.1)"
  @@ "alert-info-border" :> "rgba(99, 102, 241, 0.3)"
  @@ "alert-info-text" :> "#a5b4fc"
  @@ "alert-info-title" :> "#c7d2fe"
  @@ "alert-success-bg" :> "rgba(16, 185, 129, 0.1)"
  @@ "alert-success-border" :> "rgba(16, 185, 129, 0.3)"
  @@ "alert-success-text" :> "#6ee7b7"
  @@ "alert-success-title" :> "#a7f3d0"
  @@ "alert-warning-bg" :> "rgba(245, 158, 11, 0.1)"
  @@ "alert-warning-border" :> "rgba(245, 158, 11, 0.3)"
  @@ "alert-warning-text" :> "#fcd34d"
  @@ "alert-warning-title" :> "#fde68a"
  @@ "alert-error-bg" :> "rgba(239, 68, 68, 0.1)"
  @@ "alert-error-border" :> "rgba(239, 68, 68, 0.3)"
  @@ "alert-error-text" :> "#fca5a5"
  @@ "alert-error-title" :> "#fecaca"
  @@ "gray-900" :> Get(gray, "gray-cool-80")
  @@ "gray-700" :> Get(gray, "gray-cool-70")
  @@ "gray-600" :> Get(gray, "gray-cool-60")
  @@ "gray-500" :> Get(gray, "gray-cool-50")
  @@ "gray-400" :> Get(gray, "gray-cool-40")
  @@ "gray-300" :> Get(gray, "gray-cool-30")
  @@ "gray-200" :> Get(gray, "gray-cool-20")
  @@ "gray-100" :> Get(gray, "gray-cool-10")
  @@ "overlay-light" :> "rgba(255, 255, 255, 0.1)"
  @@ "overlay-dark" :> "rgba(0, 0, 0, 0.7)"
  @@ "hexagram-line" :> Get(gray, "gray-cool-20")
  @@ "hexagram-line-changing" :> Get(gold, "gold-50")

\* src/packages/tokens/src/semantic/colors.ts:200-289
trueBlackColors ==
  "background" :> Get(neutral, "void-pure")
  @@ "surface" :> Get(neutral, "void-surface")
  @@ "surface-elevated" :> "#141414"
  @@ "border" :> "#1a1a1a"
  @@ "text-primary" :> Get(gray, "gray-cool-10")
  @@ "text-secondary" :> Get(gray, "gray-cool-20")
  @@ "text-tertiary" :> Get(gray, "gray-cool-40")
  @@ "text-disabled" :> Get(gray, "gray-cool-60")
  @@ "text-inverse" :> Get(gray, "gray-cool-100")
  @@ "text-on-color" :> Get(gray, "gray-cool-100")
  @@ "gold-primary" :> Get(gold, "gold-60")
  @@ "gold-light" :> Get(gold, "gold-light-accent")
  @@ "gold-muted" :> Get(gold, "gold-70")
  @@ "gold-dark" :> Get(gold, "gold-90")
  @@ "gold-glow" :> Get(gold, "gold-glow")
  @@ "text-accent" :> Get(gold, "gold-50")
  @@ "interactive-primary" :> Get(gold, "gold-60")
  @@ "interactive-primary-hover" :> Get(gold, "gold-50")
  @@ "interactive-primary-active" :> Get(gold, "gold-40")
  @@ "interactive-secondary" :> Get(gray, "gray-cool-80")
  @@ "interactive-secondary-hover" :> Get(gray, "gray-cool-70")
  @@ "interactive-disabled" :> Get(gray, "gray-cool-70")
  @@ "border-subtle" :> Get(gray, "gray-cool-80")
  @@ "border-default" :> Get(gray, "gray-cool-70")
  @@ "border-strong" :> Get(gray, "gray-cool-50")
  @@ "border-inverse" :> Get(gray, "gray-cool-20")
  @@ "border-accent" :> Get(gold, "gold-50")
  @@ "border-focus" :> Get(gold, "gold-50")
  @@ "ethereal-blue" :> Get(gray, "gray-cool-70")
  @@ "ethereal-indigo" :> Get(ethereal, "ethereal-indigo-50")
  @@ "ethereal-violet" :> Get(ethereal, "ethereal-violet-50")
  @@ "support-success" :> Get(support, "support-green-50")
  @@ "support-success-subtle" :> Get(support, "support-green-60")
  @@ "support-warning" :> Get(support, "support-amber-50")
  @@ "support-warning-subtle" :> Get(support, "support-amber-60")
  @@ "support-error" :> Get(support, "support-red-50")
  @@ "support-error-subtle" :> Get(support, "support-red-60")
  @@ "support-info" :> Get(ethereal, "ethereal-blue-40")
  @@ "support-info-subtle" :> Get(ethereal, "ethereal-blue-60")
  @@ "alert-info-bg" :> "rgba(99, 102, 241, 0.1)"
  @@ "alert-info-border" :> "rgba(99, 102, 241, 0.3)"
  @@ "alert-info-text" :> "#a5b4fc"
  @@ "alert-info-title" :> "#c7d2fe"
  @@ "alert-success-bg" :> "rgba(16, 185, 129, 0.1)"
  @@ "alert-success-border" :> "rgba(16, 185, 129, 0.3)"
  @@ "alert-success-text" :> "#6ee7b7"
  @@ "alert-success-title" :> "#a7f3d0"
  @@ "alert-warning-bg" :> "rgba(245, 158, 11, 0.1)"
  @@ "alert-warning-border" :> "rgba(245, 158, 11, 0.3)"
  @@ "alert-warning-text" :> "#fcd34d"
  @@ "alert-warning-title" :> "#fde68a"
  @@ "alert-error-bg" :> "rgba(239, 68, 68, 0.1)"
  @@ "alert-error-border" :> "rgba(239, 68, 68, 0.3)"
  @@ "alert-error-text" :> "#fca5a5"
  @@ "alert-error-title" :> "#fecaca"
  @@ "gray-900" :> Get(gray, "gray-cool-80")
  @@ "gray-700" :> Get(gray, "gray-cool-70")
  @@ "gray-600" :> Get(gray, "gray-cool-60")
  @@ "gray-500" :> Get(gray, "gray-cool-50")
  @@ "gray-400" :> Get(gray, "gray-cool-40")
  @@ "gray-300" :> Get(gray, "gray-cool-30")
  @@ "gray-200" :> Get(gray, "gray-cool-20")
  @@ "gray-100" :> Get(gray, "gray-cool-10")
  @@ "overlay-light" :> "rgba(255, 255, 255, 0.1)"
  @@ "overlay-dark" :> "rgba(0, 0, 0, 0.7)"
  @@ "hexagram-line" :> Get(gray, "gray-cool-20")
  @@ "hexagram-line-changing" :> Get(gold, "gold-50")

\* src/packages/tokens/src/semantic/colors.ts:300-330
semanticSpacing ==
  "inset-xs" :> Get(spacing, "space-1")
  @@ "inset-sm" :> Get(spacing, "space-2")
  @@ "inset-md" :> Get(spacing, "space-4")
  @@ "inset-lg" :> Get(spacing, "space-6")
  @@ "inset-xl" :> Get(spacing, "space-8")
  @@ "inset-2xl" :> Get(spacing, "space-12")
  @@ "stack-xs" :> Get(spacing, "space-1")
  @@ "stack-sm" :> Get(spacing, "space-2")
  @@ "stack-md" :> Get(spacing, "space-4")
  @@ "stack-lg" :> Get(spacing, "space-6")
  @@ "stack-xl" :> Get(spacing, "space-8")
  @@ "stack-2xl" :> Get(spacing, "space-12")
  @@ "stack-3xl" :> Get(spacing, "space-16")
  @@ "inline-xs" :> Get(spacing, "space-1")
  @@ "inline-sm" :> Get(spacing, "space-2")
  @@ "inline-md" :> Get(spacing, "space-4")
  @@ "inline-lg" :> Get(spacing, "space-6")
  @@ "inline-xl" :> Get(spacing, "space-8")
  @@ "layout-gutter" :> Get(spacing, "space-4")
  @@ "layout-margin" :> Get(spacing, "space-5")
  @@ "layout-section" :> Get(spacing, "space-12")
  @@ "layout-page" :> Get(spacing, "space-16")

\* src/packages/tokens/src/semantic/typography.ts:8-116
typeStyles ==
  "type-display-large" :> ("fontSize" :> Get(fontSize, "font-size-48") @@ "fontWeight" :> Get(fontWeight, "font-weight-300") @@ "lineHeight" :> Get(lineHeight, "line-height-120") @@ "letterSpacing" :> Get(letterSpacing, "letter-spacing-tight"))
  @@ "type-display-medium" :> ("fontSize" :> Get(fontSize, "font-size-40") @@ "fontWeight" :> Get(fontWeight, "font-weight-300") @@ "lineHeight" :> Get(lineHeight, "line-height-120") @@ "letterSpacing" :> Get(letterSpacing, "letter-spacing-tight"))
  @@ "type-display-small" :> ("fontSize" :> Get(fontSize, "font-size-32") @@ "fontWeight" :> Get(fontWeight, "font-weight-300") @@ "lineHeight" :> Get(lineHeight, "line-height-120") @@ "letterSpacing" :> Get(letterSpacing, "letter-spacing-normal"))
  @@ "type-heading-xl" :> ("fontSize" :> Get(fontSize, "font-size-28") @@ "fontWeight" :> Get(fontWeight, "font-weight-600") @@ "lineHeight" :> Get(lineHeight, "line-height-140") @@ "letterSpacing" :> Get(letterSpacing, "letter-spacing-normal"))
  @@ "type-heading-lg" :> ("fontSize" :> Get(fontSize, "font-size-24") @@ "fontWeight" :> Get(fontWeight, "font-weight-600") @@ "lineHeight" :> Get(lineHeight, "line-height-140") @@ "letterSpacing" :> Get(letterSpacing, "letter-spacing-normal"))
  @@ "type-heading-md" :> ("fontSize" :> Get(fontSize, "font-size-20") @@ "fontWeight" :> Get(fontWeight, "font-weight-600") @@ "lineHeight" :> Get(lineHeight, "line-height-140") @@ "letterSpacing" :> Get(letterSpacing, "letter-spacing-normal"))
  @@ "type-heading-sm" :> ("fontSize" :> Get(fontSize, "font-size-18") @@ "fontWeight" :> Get(fontWeight, "font-weight-600") @@ "lineHeight" :> Get(lineHeight, "line-height-140") @@ "letterSpacing" :> Get(letterSpacing, "letter-spacing-normal"))
  @@ "type-body-lg" :> ("fontSize" :> Get(fontSize, "font-size-18") @@ "fontWeight" :> Get(fontWeight, "font-weight-400") @@ "lineHeight" :> Get(lineHeight, "line-height-160") @@ "letterSpacing" :> Get(letterSpacing, "letter-spacing-normal"))
  @@ "type-body-md" :> ("fontSize" :> Get(fontSize, "font-size-16") @@ "fontWeight" :> Get(fontWeight, "font-weight-400") @@ "lineHeight" :> Get(lineHeight, "line-height-150") @@ "letterSpacing" :> Get(letterSpacing, "letter-spacing-normal"))
  @@ "type-body-sm" :> ("fontSize" :> Get(fontSize, "font-size-14") @@ "fontWeight" :> Get(fontWeight, "font-weight-400") @@ "lineHeight" :> Get(lineHeight, "line-height-150") @@ "letterSpacing" :> Get(letterSpacing, "letter-spacing-normal"))
  @@ "type-label-lg" :> ("fontSize" :> Get(fontSize, "font-size-16") @@ "fontWeight" :> Get(fontWeight, "font-weight-500") @@ "lineHeight" :> Get(lineHeight, "line-height-140") @@ "letterSpacing" :> Get(letterSpacing, "letter-spacing-wide"))
  @@ "type-label-md" :> ("fontSize" :> Get(fontSize, "font-size-14") @@ "fontWeight" :> Get(fontWeight, "font-weight-500") @@ "lineHeight" :> Get(lineHeight, "line-height-140") @@ "letterSpacing" :> Get(letterSpacing, "letter-spacing-wide"))
  @@ "type-label-sm" :> ("fontSize" :> Get(fontSize, "font-size-12") @@ "fontWeight" :> Get(fontWeight, "font-weight-500") @@ "lineHeight" :> Get(lineHeight, "line-height-140") @@ "letterSpacing" :> Get(letterSpacing, "letter-spacing-wide"))
  @@ "type-caption" :> ("fontSize" :> Get(fontSize, "font-size-12") @@ "fontWeight" :> Get(fontWeight, "font-weight-400") @@ "lineHeight" :> Get(lineHeight, "line-height-140") @@ "letterSpacing" :> Get(letterSpacing, "letter-spacing-normal"))
  @@ "type-ritual-symbol" :> ("fontSize" :> Get(fontSize, "font-size-72") @@ "fontWeight" :> Get(fontWeight, "font-weight-400") @@ "lineHeight" :> Get(lineHeight, "line-height-100") @@ "letterSpacing" :> Get(letterSpacing, "letter-spacing-normal"))
  @@ "type-ritual-title" :> ("fontSize" :> Get(fontSize, "font-size-24") @@ "fontWeight" :> Get(fontWeight, "font-weight-300") @@ "lineHeight" :> Get(lineHeight, "line-height-160") @@ "letterSpacing" :> Get(letterSpacing, "letter-spacing-wider"))

\* src/unnamed/part_025:9-55
motion ==
  "motion-instant" :> ("duration" :> Get(duration, "duration-100") @@ "easing" :> Get(easing, "ease-out"))
  @@ "motion-fast" :> ("duration" :> Get(duration, "duration-200") @@ "easing" :> Get(easing, "ease-out"))
  @@ "motion-default" :> ("duration" :> Get(duration, "duration-300") @@ "easing" :> Get(easing, "ease-in-out"))
  @@ "motion-slow" :> ("duration" :> Get(duration, "duration-500") @@ "easing" :> Get(easing, "ease-in-out"))
  @@ "motion-contemplative" :> ("duration" :> Get(duration, "duration-800") @@ "easing" :> Get(easing, "ease-mystical"))
  @@ "motion-mystical" :> ("duration" :> Get(duration, "duration-1200") @@ "easing" :> Get(easing, "ease-mystical"))
  @@ "motion-breath-in" :> ("duration" :> Get(duration, "duration-3600") @@ "easing" :> Get(easing, "ease-in-out"))
  @@ "motion-breath-out" :> ("duration" :> Get(duration, "duration-4800") @@ "easing" :> Get(easing, "ease-in-out"))

\* src/unnamed/part_025:57-62
springMotion ==
  "spring-button" :> Get(spring, "spring-default")
  @@ "spring-modal" :> Get(spring, "spring-gentle")
  @@ "spring-card" :> Get(spring, "spring-gentle")
  @@ "spring-bounce" :> Get(spring, "spring-bouncy")

\* src/unnamed/part_023:8-15
semanticRadius ==
  "radius-none" :> Get(radius, "radius-0")
  @@ "radius-interactive" :> Get(radius, "radius-8")
  @@ "radius-container" :> Get(radius, "radius-12")
  @@ "radius-card" :> Get(radius, "radius-16")
  @@ "radius-modal" :> Get(radius, "radius-20")
  @@ "radius-pill" :> Get(radius, "radius-full")

\* src/packages/tokens/src/semantic/z-index.ts:8-15
semanticZIndex ==
  "z-base" :> Get(zIndex, "z-0")
  @@ "z-dropdown" :> Get(zIndex, "z-10")
  @@ "z-sticky" :> Get(zIndex, "z-20")
  @@ "z-overlay" :> Get(zIndex, "z-30")
  @@ "z-modal" :> Get(zIndex, "z-40")
  @@ "z-toast" :> Get(zIndex, "z-50")

\* src/unnamed/part_024:20-32
semantic ==
  "colors" :> ("light" :> lightColors @@ "dark" :> darkColors @@ "trueBlack" :> trueBlackColors)
  @@ "spacing" :> semanticSpacing
  @@ "typography" :> typeStyles
  @@ "motion" :> motion
  @@ "springMotion" :> springMotion
  @@ "radius" :> semanticRadius
  @@ "zIndex" :> semanticZIndex

\* src/packages/tokens/src/components/button.ts:10-42
buttonTokens ==
  "button-padding-x-sm" :> Get(semanticSpacing, "inset-sm")
  @@ "button-padding-y-sm" :> Get(semanticSpacing, "inset-xs")
  @@ "button-padding-x-md" :> Get(semanticSpacing, "inset-md")
  @@ "button-padding-y-md" :> Get(semanticSpacing, "inset-sm")
  @@ "button-padding-x-lg" :> Get(semanticSpacing, "inset-lg")
  @@ "button-padding-y-lg" :> Get(semanticSpacing, "inset-md")
  @@ "button-min-width-sm" :> 64
  @@ "button-min-width-md" :> 80
  @@ "button-min-width-lg" :> 96
  @@ "button-height-sm" :> 32
  @@ "button-height-md" :> 40
  @@ "button-height-lg" :> 48
  @@ "button-radius" :> Get(semanticRadius, "radius-interactive")
  @@ "button-radius-pill" :> Get(semanticRadius, "radius-pill")
  @@ "button-font-sm" :> Get(typeStyles, "type-label-sm")
  @@ "button-font-md" :> Get(typeStyles, "type-label-md")
  @@ "button-font-lg" :> Get(typeStyles, "type-label-lg")
  @@ "button-icon-gap-sm" :> Get(semanticSpacing, "inline-xs")
  @@ "button-icon-gap-md" :> Get(semanticSpacing, "inline-sm")
  @@ "button-icon-gap-lg" :> Get(semanticSpacing, "inline-sm")

\* src/packages/tokens/src/components/button.ts:45-78
buttonColorTokens ==
  "button-primary-background" :> "interactive-primary"
  @@ "button-primary-background-hover" :> "interactive-primary-hover"
  @@ "button-primary-background-active" :> "interactive-primary-active"
  @@ "button-primary-text" :> "text-on-color"
  @@ "button-primary-border" :> "transparent"
  @@ "button-secondary-background" :> "transparent"
  @@ "button-secondary-background-hover" :> "interactive-secondary"
  @@ "button-secondary-background-active" :> "interactive-secondary-hover"
  @@ "button-secondary-text" :> "text-primary"
  @@ "button-secondary-border" :> "border-default"
  @@ "button-ghost-background" :> "transparent"
  @@ "button-ghost-background-hover" :> "interactive-secondary"
  @@ "button-ghost-background-active" :> "interactive-secondary-hover"
  @@ "button-ghost-text" :> "text-primary"
  @@ "button-ghost-border" :> "transparent"
  @@ "button-danger-background" :> "support-error"
  @@ "button-danger-background-hover" :> "support-error"
  @@ "button-danger-background-active" :> "support-error"
  @@ "button-danger-text" :> "text-on-color"
  @@ "button-danger-border" :> "transparent"
  @@ "button-disabled-background" :> "interactive-disabled"
  @@ "button-disabled-text" :> "text-disabled"
  @@ "button-disabled-border" :> "transparent"

\* src/unnamed/part_026:9-20
cardTokens ==
  "card-padding-sm" :> Get(semanticSpacing, "inset-sm")
  @@ "card-padding-md" :> Get(semanticSpacing, "inset-md")
  @@ "card-padding-lg" :> Get(semanticSpacing, "inset-lg")
  @@ "card-radius" :> Get(semanticRadius, "radius-card")
  @@ "card-gap" :> Get(semanticSpacing, "stack-md")

\* src/unnamed/part_026:22-26
cardColorTokens ==
  "card-background" :> "background-secondary"
  @@ "card-background-elevated" :> "background-primary"
  @@ "card-border" :> "border-subtle"

\* src/unnamed/part_027:29-47
inputTokens ==
  "input-padding-x" :> Get(semanticSpacing, "inset-md")
  @@ "input-padding-y" :> Get(semanticSpacing, "inset-sm")
  @@ "input-height-sm" :> 36
  @@ "input-height-md" :> 44
  @@ "input-height-lg" :> 52
  @@ "input-radius" :> Get(semanticRadius, "radius-interactive")
  @@ "input-font" :> Get(typeStyles, "type-body-md")
  @@ "input-placeholder-font" :> Get(typeStyles, "type-body-md")
  @@ "input-label-font" :> Get(typeStyles, "type-label-sm")
  @@ "input-helper-font" :> Get(typeStyles, "type-caption")

\* src/unnamed/part_027:49-62
inputColorTokens ==
  "input-background" :> "background-primary"
  @@ "input-background-disabled" :> "background-tertiary"
  @@ "input-border" :> "border-default"
  @@ "input-border-hover" :> "border-strong"
  @@ "input-border-focus" :> "border-accent"
  @@ "input-border-error" :> "support-error"
  @@ "input-text" :> "text-primary"
  @@ "input-text-placeholder" :> "text-tertiary"
  @@ "input-text-disabled" :> "text-disabled"
  @@ "input-label" :> "text-secondary"
  @@ "input-helper" :> "text-tertiary"
  @@ "input-error" :> "support-error"

\* src/unnamed/part_027:14-18
componentTokens ==
  "button" :> ("colors" :> buttonColorTokens @@ buttonTokens)
  @@ "card" :> ("colors" :> cardColorTokens @@ cardTokens)
  @@ "input" :> ("colors" :> inputColorTokens @@ inputTokens)


(***************************************************************************)
(* Theme factory (packages/tokens/src/index.ts)                            *)
(***************************************************************************)

\* type Theme = 'light' | 'dark' | 'trueBlack'
Theme == {"light", "dark", "trueBlack"}

\* Values outside the Theme union that an untyped caller can pass.
OtherNames == {"system"}

\* A switch whose default branch returns the light table.
getThemeColorsDefaultLight(name) ==
  CASE name = "dark" -> semantic.colors.dark
    [] name = "trueBlack" -> semantic.colors.trueBlack
    [] OTHER -> semantic.colors.light

\* switch (theme) { case 'light': ..; case 'trueBlack': ..; case 'dark': default: .. }
getThemeColors(name) ==
  CASE name = "light" -> semantic.colors.light
    [] name = "trueBlack" -> semantic.colors.trueBlack
    [] OTHER -> semantic.colors.dark

\* A factory that keeps the name of the latest direct call and assembles the
\* colors for that name instead of its argument.
createThemeStale(name) ==
  [ colors       |-> getThemeColors(IF lastCreate.name = "none" THEN name
                                    ELSE lastCreate.name),
    spacing      |-> semantic.spacing,
    typography   |-> semantic.typography,
    motion       |-> semantic.motion,
    springMotion |-> semantic.springMotion,
    radius       |-> semantic.radius,
    zIndex       |-> semantic.zIndex,
    components   |-> componentTokens ]

\* A factory that resolves the component color tokens against the theme's
\* color table.
createThemeResolved(name) ==
  [ colors       |-> getThemeColors(name),
    spacing      |-> semantic.spacing,
    typography   |-> semantic.typography,
    motion       |-> semantic.motion,
    springMotion |-> semantic.springMotion,
    radius       |-> semantic.radius,
    zIndex       |-> semantic.zIndex,
    components   |->
      [c \in DOMAIN componentTokens |->
         ("colors" :> [k \in DOMAIN componentTokens[c].colors |->
                         Get(getThemeColors(name), componentTokens[c].colors[k])])
         @@ componentTokens[c]] ]

\* The object literal createTheme returns; it has no throw and no other exit.
createTheme(name) ==
  [ colors       |-> getThemeColors(name),
    spacing      |-> semantic.spacing,
    typography   |-> semantic.typography,
    motion       |-> semantic.motion,
    springMotion |-> semantic.springMotion,
    radius       |-> semantic.radius,
    zIndex       |-> semantic.zIndex,
    components   |-> componentTokens ]

(***************************************************************************)
(* ThemeProvider and its hooks (hooks/useTheme)                            *)
(***************************************************************************)

\* Number of most recent consecutive toggleTheme calls whose states are logged.
MaxRun == 3
\* Largest number of toggleTheme / setTheme calls one event handler makes
\* before React re-renders the provider.
MaxBatch == 2

\* createContext<ThemeContextValue | null>(null): the default context value.
null == [tag |-> "null"]

\* Outcome of a hook call: it returns a value or it throws.
Return(v) == [outcome |-> "return", value |-> v]
Throw(msg) == [outcome |-> "throw", value |-> msg]
NoCall == [outcome |-> "none", value |-> ""]

\* A default parameter of 'dark' in place of 'light'.
initialThemeOfDark(prop) == IF prop = undefined THEN "dark" ELSE prop

\* Default parameter of ThemeProvider: `{ theme: initialTheme = 'light' }`.
initialThemeOf(prop) == IF prop = undefined THEN "light" ELSE prop

\* A state that follows the prop on every render, as if the provider were
\* controlled by its `theme` prop.
useStateFollowsProp(isMount, initial, state) == initial

\* React.useState(initial): the initial value is used by the mounting render
\* only; later renders return the stored state.
useState(isMount, initial, state) == IF isMount THEN initial ELSE state

\* A toggle between two themes only, which never reaches trueBlack.
toggleUpdaterTwoThemes(prev) == IF prev = "light" THEN "dark" ELSE "light"

\* The updater toggleTheme hands to setTheme: (prev) => ...
toggleUpdater(prev) ==
  IF prev = "light" THEN "dark"
  ELSE IF prev = "dark" THEN "trueBlack"
  ELSE "light"

\* A state update queued by one call: toggleTheme() queues the updater,
\* setTheme(name) queues the value.
Toggle == [op |-> "toggleTheme", arg |-> undefined]
Set(name) == [op |-> "setTheme", arg |-> name]
Updates == {Toggle} \cup {Set(name) : name \in Theme}

\* React applies a queued update to the previous state: an updater function
\* is called with it, a plain value replaces it.
applyUpdate(u, prev) == IF u.op = "toggleTheme" THEN toggleUpdater(prev) ELSE u.arg

\* The state after React has applied the queued updates us in call order.
RECURSIVE applyUpdates(_, _)
applyUpdates(us, prev) ==
  IF us = <<>> THEN prev ELSE applyUpdates(Tail(us), applyUpdate(Head(us), prev))

\* An empty dependency array: the memoized object is never recomputed.
themeObjectDepsEmpty(t) == <<>>

\* Dependency array of `useMemo(() => createTheme(theme), [theme])`.
themeObjectDeps(t) == <<t>>

\* A memo that calls its factory on every render.
depsChangedAlways(prev, next) == TRUE

\* React.useMemo keeps the memoized object while every dependency is the
\* same as in the render that computed it.
depsChanged(prev, next) == prev # next

\* The factory of useMemo returns a new object: its identity differs from the
\* identity of the object it replaces.
newRef(ref) == 1 - ref

\* Dependency array of the context value; toggleTheme is a useCallback with
\* no dependencies and never changes.
valueDeps(t, obj) == <<t, obj>>

\* useTheme without its null check.
useThemeUnchecked(context) == Return(context)

\* useContext(ThemeContext) followed by the null check of useTheme.
useTheme(context) ==
  IF context = null
  THEN Throw("useTheme must be used within a ThemeProvider")
  ELSE Return(context)

\* const { themeObject } = useTheme(): destructuring null is a TypeError.
useThemeObject(context) ==
  LET r == useTheme(context) IN
  IF r.outcome = "throw" THEN r
  ELSE IF r.value = null THEN Throw("TypeError")
  ELSE Return(r.value.themeObject)

useColors(context) ==
  LET r == useTheme(context) IN
  IF r.outcome = "throw" THEN r
  ELSE IF r.value = null THEN Throw("TypeError")
  ELSE Return(r.value.themeObject.colors)

Hooks == {"useTheme", "useThemeObject", "useColors"}

callHook(h, context) ==
  CASE h = "useTheme" -> useTheme(context)
    [] h = "useThemeObject" -> useThemeObject(context)
    [] h = "useColors" -> useColors(context)

Names == Theme \cup OtherNames

NoRead == [hook |-> "none", inside |-> FALSE, result |-> NoCall]

Init ==
  /\ mounted = FALSE
  /\ mountProp = undefined
  /\ themeProp = undefined
  /\ theme = undefined
  /\ memoDeps = <<>>
  /\ themeObject = null
  /\ themeObjectRef = 0
  /\ value = null
  /\ run = <<>>
  /\ last = [op |-> "none", arg |-> undefined, before |-> undefined, after |-> undefined]
  /\ created = [n \in Names |-> {}]
  /\ lastCreate = [name |-> "none", again |-> FALSE, prev |-> "none"]
  /\ lastRead = NoRead
  /\ toast = null
  /\ timeoutRef = 0
  /\ timers = <<>>
  /\ throwing = FALSE
  /\ throwDuration = 800
  /\ onThrowComplete = "handleResult"
  /\ coins = <<"heads", "heads", "heads">>
  /\ effectDeps = <<FALSE, 800, "handleResult">>
  /\ animation = null
  /\ calls = 0
  /\ lastResult = null
  /\ shown = null
  /\ accordionMounted = FALSE
  /\ allowMultiple = FALSE
  /\ expandedIndices = <<>>
  /\ groupMounted = FALSE
  /\ accordion = FALSE
  /\ expandedIndex = -1
  /\ internalExpanded = <<>>
  /\ lastPress = null
  /\ rotateAnim = <<>>
  /\ heightAnim = <<>>
  /\ sliderMounted = FALSE
  /\ disabled = FALSE
  /\ sliderValue = 0
  /\ panClosure = null
  /\ gesture = FALSE
  /\ lastChange = null

\* One render of ThemeProvider: useState, the two useMemo calls, and the
\* context value it provides.  `state` is the useState state after React has
\* applied the queued updates.
Render(isMount, prop, state) ==
  LET t == useState(isMount, initialThemeOf(prop), state)
      recompute == isMount \/ depsChanged(memoDeps, themeObjectDeps(t))
      obj == IF recompute THEN createTheme(t) ELSE themeObject
      revalue == isMount \/ valueDeps(theme, themeObject) # valueDeps(t, obj)
  IN /\ themeProp' = prop
     /\ theme' = t
     /\ memoDeps' = IF recompute THEN themeObjectDeps(t) ELSE memoDeps
     /\ themeObject' = obj
     /\ themeObjectRef' = IF recompute THEN newRef(themeObjectRef) ELSE themeObjectRef
     /\ value' = IF revalue THEN [theme |-> t, themeObject |-> obj] ELSE value
     /\ created' = IF recompute
                   THEN [created EXCEPT ![t] = @ \cup {createTheme(t)}]
                   ELSE created
     \* a new context value re-renders every consumer below the provider:
     \* the results of their earlier hook calls are gone
     /\ lastRead' = IF lastRead.inside /\ value' # value THEN NoRead ELSE lastRead

KeepLast(s) == IF Len(s) <= MaxRun + 1 THEN s ELSE SubSeq(s, Len(s) - MaxRun, Len(s))

\* The log of consecutive toggles after the updates us were applied in order
\* from the state that ends the log r: a toggle extends it, a set restarts it.
RECURSIVE runAfter(_, _)
runAfter(r, us) ==
  IF us = <<>> THEN r
  ELSE LET next == applyUpdate(Head(us), r[Len(r)])
       IN runAfter(IF Head(us).op = "toggleTheme" THEN KeepLast(r \o <<next>>) ELSE <<next>>,
                   Tail(us))

\* The latest of the updates us applied in order from state prev.
lastAfter(us, prev) ==
  LET n == Len(us)
      before == applyUpdates(SubSeq(us, 1, n - 1), prev)
  IN [op |-> us[n].op, arg |-> us[n].arg,
      before |-> before, after |-> applyUpdate(us[n], before)]

\* An event handler makes the calls us; React then applies the queued
\* updates in order and re-renders the provider once.
Dispatch(us) ==
  /\ mounted
  /\ run' = runAfter(run, us)
  /\ last' = lastAfter(us, theme)
  /\ Render(FALSE, themeProp, applyUpdates(us, theme))
  /\ UNCHANGED <<mounted, mountProp, lastCreate>>
  /\ UNCHANGED componentVars

\* <ThemeProvider theme={prop}> is mounted; prop = undefined: no theme prop.
Mount(prop) ==
  /\ ~mounted
  /\ mounted' = TRUE
  /\ Render(TRUE, prop, theme)
  /\ mountProp' = prop
  /\ run' = <<theme'>>
  /\ UNCHANGED <<last, lastCreate>>
  /\ UNCHANGED componentVars

\* The parent re-renders the mounted provider, possibly with another prop.
ParentRerender(prop) ==
  /\ mounted
  /\ Render(FALSE, prop, theme)
  /\ UNCHANGED <<mounted, mountProp, run, last, lastCreate>>
  /\ UNCHANGED componentVars

ToggleTheme == Dispatch(<<Toggle>>)

SetTheme(name) == Dispatch(<<Set(name)>>)

\* Several toggleTheme / setTheme calls inside one event handler.
Batch(us) == Len(us) > 1 /\ Dispatch(us)

\* A component calls hook h; inside: it is rendered below the provider.
ReadHook(h, inside) ==
  /\ inside => mounted
  /\ lastRead' = [hook |-> h, inside |-> inside,
                  result |-> callHook(h, IF inside THEN value ELSE null)]
  /\ UNCHANGED <<mounted, mountProp, themeProp, theme, memoDeps, themeObject, themeObjectRef,
                 value, run, last, created, lastCreate>>
  /\ UNCHANGED componentVars

\* A direct call createTheme(name) from application code.
CallCreateTheme(name) ==
  /\ created' = [created EXCEPT ![name] = @ \cup {createTheme(name)}]
  /\ lastCreate' = [name |-> name, again |-> created[name] # {},
                     prev |-> lastCreate.name]
  /\ UNCHANGED <<mounted, mountProp, themeProp, theme, memoDeps, themeObject, themeObjectRef,
                 value, run, last, lastRead>>
  /\ UNCHANGED componentVars

BatchSeqs == UNION {[1..n -> Updates] : n \in 2..MaxBatch}

\* The provider, the code that drives it and the components that read it.
Next ==
  \/ \E prop \in Theme \cup {undefined} : Mount(prop)
  \/ \E prop \in Theme \cup {undefined} : ParentRerender(prop)
  \/ ToggleTheme
  \/ \E name \in Theme : SetTheme(name)
  \/ \E us \in BatchSeqs : Batch(us)
  \/ \E h \in Hooks, inside \in BOOLEAN : ReadHook(h, inside)

Spec == Init /\ [][Next]_vars

\* The theme factory called directly, interleaved with the provider's own
\* createTheme calls as the active theme is toggled and set.
NextFactory ==
  \/ \E prop \in Theme \cup {undefined} : Mount(prop)
  \/ ToggleTheme
  \/ \E name \in Theme : SetTheme(name)
  \/ \E name \in Names : CallCreateTheme(name)

SpecFactory == Init /\ [][NextFactory]_vars

(***************************************************************************)
(* Properties                                                              *)
(***************************************************************************)

\* export type SemanticColor = keyof typeof lightColors
SemanticColor == DOMAIN lightColors

\* The three color tables have the same keys.
KeyParity ==
  /\ DOMAIN lightColors = DOMAIN darkColors
  /\ DOMAIN darkColors = DOMAIN trueBlackColors

\* C1: lightColors, darkColors and trueBlackColors expose exactly the same set
\* of keys, so that in every reachable theme state the lookup of any
\* SemanticColor key in the active theme's color table is defined.
C1_KeyParityLookupDefined ==
  /\ KeyParity
  /\ mounted => \A k \in SemanticColor : Get(themeObject.colors, k) # undefined

\* The fixed cycle light -> dark -> trueBlack -> light.
Cycle == ("light" :> "dark") @@ ("dark" :> "trueBlack") @@ ("trueBlack" :> "light")

\* C2: every toggleTheme call advances the active theme exactly one step along
\* the cycle light -> dark -> trueBlack -> light; of any four states linked by
\* three successive toggleTheme calls the last equals the first, and the states
\* one and two toggles after a state differ from it.
C2_ToggleCycle ==
  /\ mounted => run # <<>> /\ run[Len(run)] = theme
  /\ \A i \in 1..Len(run) : run[i] \in Theme
  /\ \A i, j \in 1..Len(run) :
       /\ j = i + 1 => run[j] = Cycle[run[i]]
       /\ j \in {i + 1, i + 2} => run[j] # run[i]
       /\ j = i + 3 => run[j] = run[i]

\* Three successive toggles have been made, starting from trueBlack.
C2_Witness ==
  /\ Len(run) >= 4
  /\ run[Len(run) - 3] = "trueBlack"
  /\ theme = "trueBlack"
  /\ last.op = "toggleTheme"

\* C3: after any interleaving of toggleTheme and setTheme calls the themeObject
\* the provider exposes is the one assembled for the active theme name: its
\* colors are the light table iff theme = 'light', the dark table iff
\* theme = 'dark', the trueBlack table iff theme = 'trueBlack'.
C3_ThemeObjectMatchesTheme ==
  mounted =>
    /\ value.theme = theme
    /\ value.theme \in Theme
    /\ (value.theme = "light") <=> (value.themeObject.colors = lightColors)
    /\ (value.theme = "dark") <=> (value.themeObject.colors = darkColors)
    /\ (value.theme = "trueBlack") <=> (value.themeObject.colors = trueBlackColors)

\* A setTheme took the provider from light to dark and a toggle took it on to
\* trueBlack, whose table is exposed.
C3_Witness ==
  /\ mounted
  /\ mountProp = "light"
  /\ run = <<"dark", "trueBlack">>
  /\ last.op = "toggleTheme"
  /\ value.themeObject.colors = trueBlackColors

\* C4: setTheme(name) with name one of the three themes makes the active theme
\* equal to name whatever it was before; the active theme of the mounted
\* provider changes only in a step that applies a setTheme or toggleTheme
\* update, and a render with a different `theme` prop leaves it unchanged.
C4_SetAssignsOnlyUpdatesMutate ==
  /\ [](mounted /\ last.op = "setTheme" => last.arg \in Theme /\ theme = last.arg)
  /\ [][mounted =>
          /\ theme' # theme =>
               /\ last' # last
               /\ last'.op \in {"setTheme", "toggleTheme"}
               /\ last'.after = theme'
          /\ themeProp' # themeProp => theme' = theme]_vars

\* setTheme changed the active theme, and the provider has since been rendered
\* with a `theme` prop that is neither the mounting one nor the active theme.
C4_Witness ==
  /\ mounted
  /\ last.op = "setTheme"
  /\ last.before # last.arg
  /\ theme = last.arg
  /\ themeProp \in Theme
  /\ themeProp # mountProp
  /\ themeProp # theme

\* C5: a ThemeProvider mounted without a `theme` prop starts in state 'light';
\* mounted with a `theme` prop it starts in the supplied state.
C5_InitialTheme ==
  [][~mounted /\ mounted' =>
       /\ mountProp' = undefined => theme' = "light"
       /\ mountProp' # undefined => theme' = mountProp']_vars

\* The provider was mounted without a `theme` prop and no update was made.
C5_Witness ==
  /\ mounted
  /\ mountProp = undefined
  /\ themeProp = undefined
  /\ last.op = "none"
  /\ theme = "light"

\* C6: useTheme, useThemeObject and useColors throw, and return no value, when
\* called with no enclosing ThemeProvider; called below a provider they return
\* and do not throw.
C6_HooksThrowOutsideProvider ==
  lastRead.hook # "none" =>
    /\ lastRead.result.outcome \in {"return", "throw"}
    /\ ~lastRead.inside <=> lastRead.result.outcome = "throw"
    /\ lastRead.inside <=> lastRead.result.outcome = "return"
    /\ lastRead.inside /\ lastRead.hook = "useTheme" => lastRead.result.value = value
    /\ lastRead.inside /\ lastRead.hook = "useThemeObject" =>
         lastRead.result.value = themeObject
    /\ lastRead.inside /\ lastRead.hook = "useColors" =>
         lastRead.result.value = themeObject.colors

\* A component outside the mounted provider called useColors, which threw.
C6_Witness ==
  /\ mounted
  /\ lastRead.hook = "useColors"
  /\ ~lastRead.inside
  /\ lastRead.result.outcome = "throw"

\* The objects createTheme has returned for the three theme names.
Created == UNION {created[n] : n \in Theme}

\* The three tables of component color tokens.
ColorTokenTables == {buttonColorTokens, cardColorTokens, inputColorTokens}

\* The values of table t.
Values(t) == {t[k] : k \in DOMAIN t}

\* C7: every component color token (every value of buttonColorTokens,
\* cardColorTokens and inputColorTokens) names a semantic color key present in
\* all three theme color tables, so that in every theme state colors[token] is
\* defined for every color token of the theme object's components.
C7_ColorTokensNameSemanticKeys ==
  mounted =>
    /\ \A t \in ColorTokenTables : \A k \in DOMAIN t :
         t[k] \in (DOMAIN lightColors \cap DOMAIN darkColors) \cap DOMAIN trueBlackColors
    /\ \A c \in DOMAIN themeObject.components :
         \A k \in DOMAIN themeObject.components[c].colors :
           Get(themeObject.colors, themeObject.components[c].colors[k]) # undefined

\* C8 as stated: createTheme is total only over the three theme names; a call
\* with any other value is rejected and yields no theme object.
C8_OtherNamesRejected == \A n \in OtherNames : created[n] = {}

\* C8 amended: createTheme rejects nothing at run time.  Every direct call
\* yields a theme object: for the three theme names the object with that
\* theme's color table, for any other value the object with the dark table.
C8_OtherNamesYieldDark ==
  /\ lastCreate.name # "none" => created[lastCreate.name] # {}
  /\ \A n \in Names : \A o \in created[n] :
       /\ n = "light" => o.colors = lightColors
       /\ n = "trueBlack" => o.colors = trueBlackColors
       /\ n \notin {"light", "trueBlack"} => o.colors = darkColors
       /\ o.components = componentTokens

\* createTheme was called with a value outside the three names and returned.
C8_Witness ==
  /\ lastCreate.name \in OtherNames
  /\ created[lastCreate.name] # {}

ThemeIndependent ==
  {"spacing", "typography", "motion", "springMotion", "radius", "zIndex", "components"}

\* C10: the theme name decides only the `colors` field of the theme object: for
\* all three names createTheme returns the same spacing, typography, motion,
\* springMotion, radius, zIndex and components tables, and the components
\* tables hold their color tokens as the symbolic strings of the source, none
\* of them replaced by a color of the theme's table.
C10_OnlyColorsDependOnTheme ==
  \A a \in Created :
    /\ DOMAIN a = ThemeIndependent \cup {"colors"}
    /\ \A b \in Created : \A f \in ThemeIndependent : a[f] = b[f]
    /\ a.spacing = semanticSpacing
    /\ a.typography = typeStyles
    /\ a.motion = motion
    /\ a.springMotion = springMotion
    /\ a.radius = semanticRadius
    /\ a.zIndex = semanticZIndex
    /\ a.components.button.colors = buttonColorTokens
    /\ a.components.card.colors = cardColorTokens
    /\ a.components.input.colors = inputColorTokens
    /\ \A c \in DOMAIN a.components :
         Values(a.components[c].colors) \cap Values(a.colors) = {}

\* createTheme has returned an object for each of the three names, and the
\* provider has switched theme.
C10_Witness ==
  /\ \A n \in Theme : created[n] # {}
  /\ Cardinality(Created) = 3
  /\ mounted
  /\ last.op # "none"
  /\ last.before # last.after

\* C11: the reference of themeObject is stable between theme changes: no
\* step of the mounted provider that leaves the active theme name as it was
\* (a re-render by the parent, with the same or another `theme` prop, a
\* setTheme call that assigns the active theme, a batch of updates that ends
\* on the active theme) replaces the memoized object by a new one.
C11_ThemeObjectRefStable ==
  [][(mounted /\ mounted' /\ theme' = theme) => themeObjectRef' = themeObjectRef]_vars

\* The provider was re-rendered with another `theme` prop than it was mounted
\* with and setTheme was called with the active theme; the object is the one
\* the mounting render created.
C11_Witness ==
  /\ mounted
  /\ themeProp # mountProp
  /\ last.op = "setTheme"
  /\ last.before = last.after
  /\ themeObjectRef = newRef(0)
  /\ themeObject = createTheme(theme)

\* The four dimensions of a type style.
TypeDimensions == {"fontSize", "fontWeight", "lineHeight", "letterSpacing"}

\* A lookup that found its key: the value is not JavaScript's undefined.
\* (Sizes are numbers and the other dimensions strings, so the comparison is
\* made on the printed values.)
Defined(v) == ToString(v) # ToString(undefined)

\* The primitive scale every dimension of a type style is taken from.
PrimitiveOf ==
  "fontSize" :> fontSize @@ "fontWeight" :> fontWeight
  @@ "lineHeight" :> lineHeight @@ "letterSpacing" :> letterSpacing

\* The typography a component reads: the table itself, and once the provider
\* is mounted the `typography` of the themeObject it serves.
TypographyRead ==
  IF themeObject = null THEN {typeStyles} ELSE {typeStyles, themeObject.typography}

\* C12: every role of typeStyles defines fontSize, fontWeight, lineHeight and
\* letterSpacing, and each of them is a defined value of its primitive scale
\* (no lookup of an absent primitive key); the same holds of the typography
\* of every themeObject the provider serves.
C12_TypeStylesComplete ==
  \A table \in TypographyRead :
    \A role \in DOMAIN table :
      /\ TypeDimensions \subseteq DOMAIN table[role]
      /\ \A d \in TypeDimensions :
           /\ Defined(table[role][d])
           /\ \E k \in DOMAIN PrimitiveOf[d] : ToString(PrimitiveOf[d][k]) = ToString(table[role][d])

\* A themeObject is served whose typography holds the sixteen roles, the largest
\* display size and the caption among them.
C12_Witness ==
  /\ mounted
  /\ themeObject # null
  /\ Cardinality(DOMAIN themeObject.typography) = 16
  /\ themeObject.typography["type-display-large"].fontSize = fontSize["font-size-48"]
  /\ themeObject.typography["type-caption"].letterSpacing = letterSpacing["letter-spacing-normal"]

(***************************************************************************)
(* ToastProvider (components/Toast)                                        *)
(***************************************************************************)

\* Most setTimeout callbacks pending at one time.
MaxPending == 3

\* `config.duration ?? 3000`
DefaultDuration == 3000

\* `setTimeout(() => setToast(null), 300)`
RemovalDelay == 300

\* `useRef<...>(null)`: no handle; setTimeout returns positive handles.
NoTimer == 0

Messages == {"A", "B"}

\* The `duration` values a caller passes, in ms; 0 asks for a persistent toast.
ConfigDurations == {0, 200}

\* A ToastConfig with or without the optional `duration`.
ToastConfigs ==
  [message : Messages] \cup [message : Messages, duration : ConfigDurations]

durationOf(config) ==
  IF "duration" \in DOMAIN config THEN config.duration ELSE DefaultDuration

\* The ToastState showToast builds.  `variant` and `position` only style the
\* view and `id` is read nowhere; they are left out.
newToast(config) ==
  [message |-> config.message, duration |-> durationOf(config), visible |-> TRUE]

\* The updater hideToast hands to setToast.
hideUpdater(prev) == IF prev # null THEN [prev EXCEPT !.visible = FALSE] ELSE null

\* A pending timer: its handle, the callback it will run, the delay it was
\* set with, and whether showToast was called after it was set.
Timer(handle, callback, delay) ==
  [handle |-> handle, callback |-> callback, delay |-> delay, old |-> FALSE]

\* A handle setTimeout has not handed out: no pending timer and no reference
\* holds it.
freshHandle(pending, ref) ==
  CHOOSE h \in 1..(MaxPending + 1) :
    h # ref /\ \A j \in 1..Len(pending) : pending[j].handle # h

\* Where a timer set now with `delay` can stand in the firing order: after
\* every pending timer that was set with a delay no longer than its own, and
\* before or after the others, depending on the time that has passed.
Positions(pending, delay) ==
  {i \in 0..Len(pending) : \A j \in 1..Len(pending) : pending[j].delay <= delay => j <= i}

Insert(pending, i, t) ==
  SubSeq(pending, 1, i) \o <<t>> \o SubSeq(pending, i + 1, Len(pending))

clearTimeout(pending, handle) ==
  SelectSeq(pending, LAMBDA t : t.handle # handle)

\* showToast was called: the timers still pending were set for an earlier toast.
Aged(pending) == [j \in 1..Len(pending) |-> [pending[j] EXCEPT !.old = TRUE]]

\* The body of hideToast, run with the timers `pending`: the toast is marked
\* not visible and its removal is set 300 ms ahead, at place pos.
hideToast(pending, pos) ==
  /\ toast' = hideUpdater(toast)
  /\ timers' = Insert(pending, pos,
                      Timer(freshHandle(pending, timeoutRef), "setToastNull", RemovalDelay))

\* A consumer calls hideToast().
HideToast ==
  /\ Len(timers) < MaxPending
  /\ \E pos \in Positions(timers, RemovalDelay) : hideToast(timers, pos)
  /\ UNCHANGED timeoutRef
  /\ UNCHANGED otherThanToast

\* A consumer calls showToast(config).
ShowToast(config) ==
  LET cleared == IF timeoutRef # NoTimer THEN clearTimeout(timers, timeoutRef) ELSE timers
      t == newToast(config)
      h == freshHandle(cleared, timeoutRef)
  IN /\ t.duration > 0 => Len(cleared) < MaxPending
     /\ toast' = t
     /\ IF t.duration > 0
        THEN /\ \E pos \in Positions(cleared, t.duration) :
                  timers' = Insert(Aged(cleared), pos, Timer(h, "hideToast", t.duration))
             /\ timeoutRef' = h
        ELSE /\ timers' = Aged(cleared)
             /\ timeoutRef' = timeoutRef
     /\ UNCHANGED otherThanToast

\* The next pending timer fires and runs its callback.
FireTimer ==
  /\ timers # <<>>
  /\ LET t == Head(timers)
         rest == Tail(timers)
     IN IF t.callback = "hideToast"
        THEN \E pos \in Positions(rest, RemovalDelay) : hideToast(rest, pos)
        ELSE toast' = null /\ timers' = rest
  /\ UNCHANGED timeoutRef
  /\ UNCHANGED otherThanToast

NextToast ==
  \/ \E config \in ToastConfigs : ShowToast(config)
  \/ HideToast
  \/ FireTimer

\* The toast provider, its consumers and the timers.
SpecToast == Init /\ [][NextToast]_vars

\* C13: a toast shown with duration 0 is persistent: while it is displayed
\* and nobody has called hideToast on it, no timer that fires hides or
\* removes it, whatever calls and timers came before it was shown.
C13_PersistentToastKeptByTimers ==
  [][(toast # null /\ toast.duration = 0 /\ toast.visible /\ FireTimer)
       => toast' = toast]_vars

\* C15 (the part a finite run refutes): a visible toast with duration d > 0 is
\* changed by no timer but its own auto-hide timer, the hideToast timer set by
\* the showToast call that displayed it.
C15_HiddenByOwnTimerOnly ==
  [][(/\ toast # null /\ toast.duration > 0 /\ toast.visible
      /\ FireTimer
      /\ ~(Head(timers).callback = "hideToast" /\ ~Head(timers).old))
       => toast' = toast]_vars

\* C16: a timer set before the latest showToast call, be it the auto-hide
\* timer of an earlier toast or the removal an earlier hideToast scheduled,
\* leaves the toast that call displayed as it is when it fires.
C16_EarlierTimersSpareLaterToast ==
  [][(toast # null /\ FireTimer /\ Head(timers).old) => toast' = toast]_vars

(***************************************************************************)
(* ThreeCoins, HexagramLine and HexagramVisual                             *)
(***************************************************************************)

\* Most onThrowComplete calls counted for one throw.
MaxCalls == 2

CoinSide == {"heads", "tails"}

CoinTriples == [1..3 -> CoinSide]

\* The `throwDuration` values a parent passes; 800 is the default.
ThrowDurations == {800, 400}

\* The functions a parent passes as onThrowComplete: a stable handler and the
\* inline arrow functions of two renders, each a function of its own.
Handlers == {"handleResult", "inline1", "inline2"}

\* c.reduce((acc, coin) => acc + (coin === 'heads' ? 3 : 2), 0)
RECURSIVE reduceSum(_)
reduceSum(c) ==
  IF c = <<>> THEN 0
  ELSE reduceSum(SubSeq(c, 1, Len(c) - 1)) + (IF c[Len(c)] = "heads" THEN 3 ELSE 2)

\* A map that takes 6 for old yang and 9 for old yin.
lineTypeMapSwapped ==
  6 :> "changing-yang" @@ 7 :> "yang" @@ 8 :> "yin" @@ 9 :> "changing-yin"

lineTypeMap ==
  6 :> "changing-yin" @@ 7 :> "yang" @@ 8 :> "yin" @@ 9 :> "changing-yang"

calculateResult(c) ==
  LET sum == reduceSum(c)
  IN [coins |-> c, value |-> sum, lineType |-> lineTypeMap[sum]]

\* Dependency array of the throw effect; the spin and bounce values and
\* calculateResult are the same objects in every render.
throwEffectDeps(th, dur, fn) == <<th, dur, fn>>

\* The callback handed to Animated.parallel(...).start: it draws the coins c,
\* stores them and reports the result to the onThrowComplete of the render
\* that started the animation.  It does not look at `finished`.
ThrowCallback(c) ==
  /\ coins' = c
  /\ lastResult' = calculateResult(c)

\* The parent renders <ThreeCoins throwing={th} throwDuration={dur}
\* onThrowComplete={fn}>.  The throw effect runs when a dependency has
\* changed and, if `throwing`, starts the animation; it has no cleanup.
\* Starting an animation on spin values that are still being animated stops
\* the running animation, whose callback is then called with finished: false.
RenderThreeCoins(th, dur, fn) ==
  LET deps == throwEffectDeps(th, dur, fn)
      runs == deps # effectDeps
      starts == runs /\ th
      interrupts == starts /\ animation # null
      newThrow == th /\ ~throwing
  IN /\ (interrupts /\ ~newThrow) => calls < MaxCalls
     /\ throwing' = th
     /\ throwDuration' = dur
     /\ onThrowComplete' = fn
     /\ effectDeps' = deps
     /\ animation' = IF starts THEN [onThrowComplete |-> fn] ELSE animation
     /\ IF interrupts
        THEN \E c \in CoinTriples : ThrowCallback(c)
        ELSE UNCHANGED <<coins, lastResult>>
     /\ calls' = IF newThrow THEN 0
                 ELSE IF interrupts THEN calls + 1
                 ELSE calls
     /\ UNCHANGED shown
     /\ UNCHANGED otherThanCoins

\* The throw animation runs to its end: its callback is called.
AnimationEnd(c) ==
  /\ animation # null
  /\ calls < MaxCalls
  /\ ThrowCallback(c)
  /\ animation' = null
  /\ calls' = calls + 1
  /\ UNCHANGED <<throwing, throwDuration, onThrowComplete, effectDeps, shown>>
  /\ UNCHANGED otherThanCoins

LineType == {"yang", "yin", "changing-yang", "changing-yin"}

LineValue == {6, 7, 8, 9}

\* A renderer that draws the primary line whatever showTransformed says.
getDisplayLinePrimary(line, showTransformed) ==
  IF line = "yang" \/ line = "changing-yang" THEN "yang" ELSE "yin"

\* HexagramVisual.getDisplayLine
getDisplayLine(line, showTransformed) ==
  IF showTransformed /\ line = "changing-yang" THEN "yin"
  ELSE IF showTransformed /\ line = "changing-yin" THEN "yang"
  ELSE IF line = "yang" \/ line = "changing-yang" THEN "yang"
  ELSE "yin"

\* HexagramVisual.isChanging
isChanging(line) == line = "changing-yang" \/ line = "changing-yin"

\* HexagramLine.getLineNature
getLineNature(v) ==
  CASE v = 6 -> "changing-yin"
    [] v = 7 -> "yang"
    [] v = 8 -> "yin"
    [] v = 9 -> "changing-yang"

\* HexagramLine: const isChanging = value === 6 || value === 9
isChangingValue(v) == v = 6 \/ v = 9

\* HexagramLine.getDisplayNature
getDisplayNature(v, showTransformed) ==
  LET nature == getLineNature(v) IN
  IF showTransformed /\ isChangingValue(v)
  THEN (IF nature = "changing-yang" THEN "yin" ELSE "yang")
  ELSE IF nature = "yang" \/ nature = "changing-yang" THEN "yang"
  ELSE "yin"

\* The application draws the latest result twice: its value as a
\* <HexagramLine value showTransformed> and its lineType as a line of a
\* <HexagramVisual lines showTransformed>.
RenderLines(showTransformed) ==
  /\ lastResult # null
  /\ shown' = [value |-> lastResult.value, lineType |-> lastResult.lineType,
               showTransformed |-> showTransformed,
               line |-> getDisplayNature(lastResult.value, showTransformed),
               visual |-> getDisplayLine(lastResult.lineType, showTransformed),
               gold |-> <<isChangingValue(lastResult.value), isChanging(lastResult.lineType)>>]
  /\ UNCHANGED <<throwing, throwDuration, onThrowComplete, coins, effectDeps,
                 animation, calls, lastResult>>
  /\ UNCHANGED otherThanCoins

NextCoins ==
  \/ \E th \in BOOLEAN, dur \in ThrowDurations, fn \in Handlers : RenderThreeCoins(th, dur, fn)
  \/ \E c \in CoinTriples : AnimationEnd(c)
  \/ \E showTransformed \in BOOLEAN : RenderLines(showTransformed)

\* A coin cast: the parent, the ThreeCoins component, its animation and the
\* hexagram lines drawn from the results.
SpecCoins == Init /\ [][NextCoins]_vars

\* The traditional coin method: heads counts 3 and tails 2.
Points(coin) == IF coin = "heads" THEN 3 ELSE 2

\* 6 is old yin, 7 young yang, 8 young yin and 9 old yang.
TraditionalLine ==
  6 :> "changing-yin" @@ 7 :> "yang" @@ 8 :> "yin" @@ 9 :> "changing-yang"

FollowsCoinMethod(r, c) ==
  /\ r.coins = c
  /\ r.value = Points(c[1]) + Points(c[2]) + Points(c[3])
  /\ r.value \in {6, 7, 8, 9}
  /\ r.lineType = TraditionalLine[r.value]

\* C14: calculateResult follows the traditional coin method for all 8 coin
\* combinations: the value is the sum with heads = 3 and tails = 2, it lies in
\* {6, 7, 8, 9}, the lineType is changing-yin for 6, yang for 7, yin for 8 and
\* changing-yang for 9, and `coins` is the input triple; so does every result
\* a throw has reported.
C14_TraditionalCoinMethod ==
  /\ \A c \in CoinTriples : FollowsCoinMethod(calculateResult(c), c)
  /\ lastResult # null => FollowsCoinMethod(lastResult, coins)

\* A throw has reported two tails and one head: a 7, young yang.
C14_Witness ==
  /\ lastResult # null
  /\ lastResult.coins = <<"tails", "heads", "tails">>
  /\ lastResult.value = 7
  /\ lastResult.lineType = "yang"
  /\ calls = 1

\* C17: one throw, from the change of `throwing` to true on, leads to no more
\* than one onThrowComplete call.
C17_OneResultPerThrow == calls <= 1

\* C18: HexagramLine and HexagramVisual draw every line alike: for each
\* value v in {6, 7, 8, 9} the nature HexagramLine displays for v is the one
\* HexagramVisual displays for the lineType ThreeCoins gives v, with and
\* without showTransformed; showTransformed turns changing-yang into yin and
\* changing-yin into yang and leaves yang and yin as they are.
C18_RenderersAgree ==
  /\ \A v \in LineValue, showTransformed \in BOOLEAN :
       /\ getDisplayNature(v, showTransformed) = getDisplayLine(lineTypeMap[v], showTransformed)
       /\ isChangingValue(v) = isChanging(lineTypeMap[v])
  /\ getDisplayLine("changing-yang", FALSE) = "yang"
  /\ getDisplayLine("changing-yang", TRUE) = "yin"
  /\ getDisplayLine("changing-yin", FALSE) = "yin"
  /\ getDisplayLine("changing-yin", TRUE) = "yang"
  /\ \A showTransformed \in BOOLEAN :
       /\ getDisplayLine("yang", showTransformed) = "yang"
       /\ getDisplayLine("yin", showTransformed) = "yin"
  /\ shown # null => shown.line = shown.visual

\* A thrown 9 is drawn transformed: both renderers show a yin line.
C18_Witness ==
  /\ shown # null
  /\ shown.value = 9
  /\ shown.lineType = "changing-yang"
  /\ shown.showTransformed
  /\ shown.line = "yin"
  /\ shown.visual = "yin"

(***************************************************************************)
(* Accordion (components/Accordion)                                        *)
(***************************************************************************)

\* Number of AccordionItem children.
MaxItems == 3

\* Longest `defaultExpanded` list a parent passes.
MaxDefault == 2

\* Indices of the children: React.Children.toArray(children).map((child, index) => ...)
ItemIndices == 0..(MaxItems - 1)

DefaultExpandedLists == UNION {[1..n -> ItemIndices] : n \in 0..MaxDefault}

\* prev.includes(index)
includes(prev, index) == \E j \in 1..Len(prev) : prev[j] = index

\* prev.filter((i) => i !== index)
filterOut(prev, index) == SelectSeq(prev, LAMBDA i : i # index)

\* The updater handleToggle hands to setExpandedIndices.
handleToggleUpdater(prev, index, multiple) ==
  IF includes(prev, index) THEN filterOut(prev, index)
  ELSE IF multiple THEN prev \o <<index>>
  ELSE <<index>>

\* The `expanded` prop the Accordion gives the item at index.
itemExpanded(index) == includes(expandedIndices, index)

ExpandedItems == {index \in ItemIndices : itemExpanded(index)}

\* <Accordion allowMultiple={multiple} defaultExpanded={defaultExpanded}>
MountAccordion(multiple, defaultExpanded) ==
  /\ ~accordionMounted
  /\ accordionMounted' = TRUE
  /\ allowMultiple' = multiple
  /\ expandedIndices' = defaultExpanded
  /\ UNCHANGED otherThanAccordion

\* The header of the item at index is pressed: onToggle = () => handleToggle(index)
HandleToggle(index) ==
  /\ accordionMounted
  /\ expandedIndices' = handleToggleUpdater(expandedIndices, index, allowMultiple)
  /\ UNCHANGED <<accordionMounted, allowMultiple>>
  /\ UNCHANGED otherThanAccordion

(***************************************************************************)
(* CollapsibleGroup and Collapsible (components/Collapsible)               *)
(***************************************************************************)

\* Number of Collapsible children of the group.
MaxChildren == 3

\* `useState<number | null>(null)`: no index; the indices start at 0.
NoIndex == -1

ChildIndices == 0..(MaxChildren - 1)

\* A callback that never clears the index.
groupOnExpandedChangeKeeps(expanded, index) == index

\* onExpandedChange the group gives the child at index:
\* (expanded) => setExpandedIndex(expanded ? index : null)
groupOnExpandedChange(expanded, index) == IF expanded THEN index ELSE NoIndex

\* The `expanded` prop of the child at index: `expandedIndex === index` from
\* an accordion group; a plain group passes its children through unchanged.
controlledExpanded(index) == IF accordion THEN expandedIndex = index ELSE undefined

\* Collapsible: controlledExpanded !== undefined ? controlledExpanded : internalExpanded
isExpanded(index) ==
  IF accordion THEN controlledExpanded(index) ELSE internalExpanded[index + 1]

ExpandedChildren == {index \in ChildIndices : isExpanded(index)}

\* `new Animated.Value(defaultExpanded ? 1 : 0)` and `toValue: newExpanded ? 1 : 0`
animTarget(expanded) == IF expanded THEN 1 ELSE 0

\* <CollapsibleGroup accordion={acc}> with MaxChildren Collapsible children, the
\* child at index mounted with defaultExpanded = defaults[index + 1].
MountGroup(acc, defaults) ==
  /\ ~groupMounted
  /\ groupMounted' = TRUE
  /\ accordion' = acc
  /\ expandedIndex' = NoIndex
  /\ internalExpanded' = defaults
  /\ lastPress' = null
  /\ rotateAnim' = [j \in 1..MaxChildren |-> animTarget(defaults[j])]
  /\ heightAnim' = [j \in 1..MaxChildren |-> animTarget(defaults[j])]
  /\ UNCHANGED otherThanGroup

\* The header of the child at index is pressed: Collapsible.handleToggle.
PressChild(index) ==
  LET newExpanded == ~isExpanded(index) IN
  /\ groupMounted
  /\ lastPress' = [index |-> index, wasExpanded |-> isExpanded(index)]
  \* Animated.parallel([spring(rotateAnim), timing(heightAnim)]).start(), or
  \* the two setValue calls of noAnimation: the same targets either way
  /\ rotateAnim' = [rotateAnim EXCEPT ![index + 1] = animTarget(newExpanded)]
  /\ heightAnim' = [heightAnim EXCEPT ![index + 1] = animTarget(newExpanded)]
  /\ IF accordion
     THEN /\ expandedIndex' = groupOnExpandedChange(newExpanded, index)
          /\ UNCHANGED internalExpanded
     ELSE /\ internalExpanded' = [internalExpanded EXCEPT ![index + 1] = newExpanded]
          /\ UNCHANGED expandedIndex
  /\ UNCHANGED <<groupMounted, accordion>>
  /\ UNCHANGED otherThanGroup

NextExpand ==
  \/ \E multiple \in BOOLEAN, defaultExpanded \in DefaultExpandedLists :
       MountAccordion(multiple, defaultExpanded)
  \/ \E index \in ItemIndices : HandleToggle(index)
  \/ \E acc \in BOOLEAN, defaults \in [1..MaxChildren -> BOOLEAN] : MountGroup(acc, defaults)
  \/ \E index \in ChildIndices : PressChild(index)

\* A screen with an Accordion and a CollapsibleGroup, and the presses on
\* their headers.
SpecExpand == Init /\ [][NextExpand]_vars

\* C19: in an Accordion with allowMultiple = false at most one item is
\* expanded in every reachable state, whatever defaultExpanded list it was
\* mounted with and whatever items were toggled.
C19_AtMostOneItemExpanded ==
  (accordionMounted /\ ~allowMultiple) => Cardinality(ExpandedItems) <= 1

\* C20: in a CollapsibleGroup with accordion = true at most one child is
\* expanded at any time; after a press on a collapsed child that child is the
\* only expanded one (the child expanded before is collapsed), and after a
\* press on the expanded child none is expanded.
C20_AtMostOneChildExpanded ==
  (groupMounted /\ accordion) =>
    /\ Cardinality(ExpandedChildren) <= 1
    /\ lastPress # null =>
         ExpandedChildren = (IF lastPress.wasExpanded THEN {} ELSE {lastPress.index})

\* An accordion group whose first child was mounted with defaultExpanded shows
\* its second child expanded, and only that one.
C20_Witness ==
  /\ groupMounted
  /\ accordion
  /\ internalExpanded[1]
  /\ expandedIndex = 1
  /\ ExpandedChildren = {1}
  /\ lastPress = [index |-> 1, wasExpanded |-> FALSE]

\* C21: the animation targets of every Collapsible match its expanded state:
\* the height and the chevron animation target 1 while isExpanded is true and
\* 0 while it is false, also for a child whose `expanded` prop the group
\* changed without a press on that child.
C21_AnimationMatchesExpanded ==
  groupMounted =>
    \A index \in ChildIndices :
      /\ heightAnim[index + 1] = (IF isExpanded(index) THEN 1 ELSE 0)
      /\ rotateAnim[index + 1] = (IF isExpanded(index) THEN 1 ELSE 0)

(***************************************************************************)
(* Slider (components/Slider)                                              *)
(***************************************************************************)

\* The `max` prop: the values run from min to MaxValue.
MaxValue == 2

\* `min = 0`
min == 0

\* `step = 1`
step == 1

\* Width of the track per unit of value once the slider is laid out:
\* trackWidth.current = layout width - thumbSize.
PixelsPerValue == 2

trackWidth == PixelsPerValue * (MaxValue - min)

SliderValues == min..MaxValue

\* gestureState.dx of a move.
Moves == (0 - trackWidth)..trackWidth

\* Math.min(Math.max(val, minVal), maxVal)
clamp(val, minVal, maxVal) ==
  LET lower == IF val > minVal THEN val ELSE minVal
  IN IF lower < maxVal THEN lower ELSE maxVal

\* Math.round(n / d) for d > 0: the nearest integer, halves upwards.
round(n, d) == (2 * n + d) \div (2 * d)

\* percentage = (val - min) / (max - min); percentage * trackWidth.current
valueToPosition(val) == ((val - min) * trackWidth) \div (MaxValue - min)

\* percentage = pos / trackWidth.current;
\* rawValue = percentage * (max - min) + min;
\* steppedValue = Math.round(rawValue / step) * step
positionToValue(pos) ==
  LET steppedValue == round(pos * (MaxValue - min) + min * trackWidth, trackWidth * step) * step
  IN clamp(steppedValue, min, MaxValue)

\* <Slider value={v} disabled={d}> is mounted and laid out.  useRef keeps the
\* PanResponder this render creates, whose callbacks read the `disabled` and
\* `value` of this render.
MountSlider(d, v) ==
  /\ ~sliderMounted
  /\ sliderMounted' = TRUE
  /\ disabled' = d
  /\ sliderValue' = v
  /\ panClosure' = [disabled |-> d, value |-> v]
  /\ UNCHANGED <<gesture, lastChange>>
  /\ UNCHANGED otherThanSlider

\* The parent renders the slider again with the props d and v: useRef returns
\* the PanResponder of the first render.
RenderSlider(d, v) ==
  /\ sliderMounted
  /\ disabled' = d
  /\ sliderValue' = v
  /\ UNCHANGED <<sliderMounted, panClosure, gesture, lastChange>>
  /\ UNCHANGED otherThanSlider

\* A touch starts on the thumb: onStartShouldSetPanResponder: () => !disabled
PanStart ==
  /\ sliderMounted
  /\ ~gesture
  /\ ~panClosure.disabled
  /\ gesture' = TRUE
  /\ UNCHANGED <<sliderMounted, disabled, sliderValue, panClosure, lastChange>>
  /\ UNCHANGED otherThanSlider

\* The finger moves by dx: onPanResponderMove
PanMove(dx) ==
  LET newPosition == clamp(valueToPosition(panClosure.value) + dx, 0, trackWidth)
      newValue == positionToValue(newPosition)
  IN /\ sliderMounted
     /\ gesture
     /\ lastChange' = IF newValue # panClosure.value
                      THEN [value |-> newValue, disabled |-> disabled]
                      ELSE lastChange
     /\ UNCHANGED <<sliderMounted, disabled, sliderValue, panClosure, gesture>>
     /\ UNCHANGED otherThanSlider

\* The finger is lifted: onPanResponderRelease
PanRelease ==
  /\ sliderMounted
  /\ gesture
  /\ gesture' = FALSE
  /\ UNCHANGED <<sliderMounted, disabled, sliderValue, panClosure, lastChange>>
  /\ UNCHANGED otherThanSlider

NextSlider ==
  \/ \E d \in BOOLEAN, v \in SliderValues : MountSlider(d, v)
  \/ \E d \in BOOLEAN, v \in SliderValues : RenderSlider(d, v)
  \/ PanStart
  \/ \E dx \in Moves : PanMove(dx)
  \/ PanRelease

\* A slider, the parent that renders it and the finger on its thumb.
SpecSlider == Init /\ [][NextSlider]_vars

\* C22: no onValueChange call is made by a pan gesture while the `disabled`
\* prop is true, whether the slider was disabled from its first render or
\* became disabled on a later one.
C22_DisabledNeverCallsOnValueChange ==
  lastChange # null => ~lastChange.disabled

=============================================================================
